---- MODULE Spec2Model ----
(***************************************************************************)
(* State-machine model of MixingHandler (PWGDQ/Core/MixingHandler.cxx):    *)
(* the ordered list of mixing variables with their bin limits, the lazy    *)
(* initialisation flag, and the encode / decode of the event category.     *)
(*                                                                         *)
(* Floats are modelled by integers: the code only compares them.  Indices  *)
(* are 0-based as in the source; At(s, i) reads element i of a vector.     *)
(* Each call records its name, arguments and return value in the last*     *)
(* variables; prevCall keeps the first FindEventCategory call made on the  *)
(* current variable list and counts the calls made on it (0, 1, 2 = more). *)
(***************************************************************************)
EXTENDS Integers, Sequences, FiniteSets, TLC

VARIABLES fVariables, fVariableLimits, fIsInitialized, fgUsedVars,
          lastOp, lastVar, lastCategory, lastValues, lastResult,
          lastLimits, lastUndefined, prevCall

vars == <<fVariables, fVariableLimits, fIsInitialized, fgUsedVars,
          lastOp, lastVar, lastCategory, lastValues, lastResult,
          lastLimits, lastUndefined, prevCall>>

(* ------------------------------ bounds --------------------------------- *)
MaxAxes == 2
MaxCategory == 5

\* the VarManager::Variables identifiers, the sample values and the bin
\* limits the calls are made with
Vars == {0, 1}
Values == {0, 2, 4}
ValueVectors == [Vars -> Values]
Categories == -1 .. MaxCategory
BinLimits == { <<0, 2, 4, 6>>, <<-1, 2, 4>>, <<1, 3>> }

NoValues == [v \in Vars |-> 0]
NoCall == [calls |-> 0, values |-> NoValues, result |-> 0]

(* ------------------------------ helpers -------------------------------- *)
At(s, i) == s[i + 1]

GetSize(i) == Len(At(fVariableLimits, i))

\* C++ int division and remainder truncate toward zero
CDiv(a, b) == IF a >= 0 THEN a \div b ELSE -((-a) \div b)

CRem(a, b) == a - b * CDiv(a, b)

\* std::lower_bound on array[0..n): first index whose element is not < value
RECURSIVE LowerBound(_, _, _, _)
LowerBound(array, first, count, value) ==
  IF count <= 0 THEN first
  ELSE LET step == count \div 2
           it == first + step
       IN IF At(array, it) < value
            THEN LowerBound(array, it + 1, count - (step + 1), value)
            ELSE LowerBound(array, first, step, value)

\* TMath::BinarySearch(n, array, value)
BinarySearch(n, array, value) ==
  LET pind == LowerBound(array, 0, n, value)
  IN IF pind # n /\ At(array, pind) = value THEN pind ELSE pind - 1

(* --------------------------- GetMixingVariable ------------------------- *)
\* variant: the scan stops at the first match
RECURSIVE LastMatchLoop_FirstMatch(_, _, _)
LastMatchLoop_FirstMatch(var, iVar, varNum) ==
  IF iVar >= Len(fVariables) THEN varNum
  ELSE IF At(fVariables, iVar) = var THEN iVar
  ELSE LastMatchLoop_FirstMatch(var, iVar + 1, varNum)

RECURSIVE LastMatchLoop(_, _, _)
LastMatchLoop(var, iVar, varNum) ==
  IF iVar >= Len(fVariables) THEN varNum
  ELSE LastMatchLoop(var, iVar + 1,
                     IF At(fVariables, iVar) = var THEN iVar ELSE varNum)

GetMixingVariableResult(var) == LastMatchLoop(var, 0, -1)

RECURSIVE LimitsLoop(_, _, _)
LimitsLoop(var, iVar, binLimits) ==
  IF iVar >= Len(fVariables) THEN binLimits
  ELSE LimitsLoop(var, iVar + 1,
                  IF At(fVariables, iVar) = var
                    THEN binLimits \o At(fVariableLimits, iVar)
                    ELSE binLimits)

GetMixingVariableLimitsResult(var) == LimitsLoop(var, 0, <<>>)

(* --------------------------------- Init -------------------------------- *)
RECURSIVE InitSizeLoop(_, _)
InitSizeLoop(iVar, size) ==
  IF iVar >= Len(fVariables) THEN size
  ELSE InitSizeLoop(iVar + 1, size * (GetSize(iVar) - 1))

InitSize == InitSizeLoop(0, 1)

(* --------------------------- FindEventCategory ------------------------- *)
\* line 135: the bin of axis i
BinOf(i, values) ==
  BinarySearch(GetSize(i), At(fVariableLimits, i), values[At(fVariables, i)])

\* variant: the upper limit is not tested
OutOfLimits_NoUpper(i, b) == b = -1

OutOfLimits(i, b) == b = -1 \/ b = GetSize(i) - 1

\* variant: the later axes do not scale the bin
RECURSIVE TempCategoryLoop_Unweighted(_, _, _, _)
TempCategoryLoop_Unweighted(bin, iVar, iVar2, tempCategory) ==
  IF iVar2 >= Len(fVariables) THEN tempCategory
  ELSE TempCategoryLoop_Unweighted(bin, iVar, iVar2 + 1,
         IF iVar2 = iVar THEN tempCategory * At(bin, iVar2)
                         ELSE tempCategory)

\* variant: the inner loop runs down to the first axis
RECURSIVE TempCategoryLoop_Downward(_, _, _, _)
TempCategoryLoop_Downward(bin, iVar, iVar2, tempCategory) ==
  IF iVar2 < 0 THEN tempCategory
  ELSE TempCategoryLoop_Downward(bin, iVar, iVar2 - 1,
         IF iVar2 = iVar THEN tempCategory * At(bin, iVar2)
                         ELSE tempCategory * (GetSize(iVar2) - 1))

\* variant: the radix is the number of edges, not of bins
RECURSIVE TempCategoryLoop_EdgeCount(_, _, _, _)
TempCategoryLoop_EdgeCount(bin, iVar, iVar2, tempCategory) ==
  IF iVar2 >= Len(fVariables) THEN tempCategory
  ELSE TempCategoryLoop_EdgeCount(bin, iVar, iVar2 + 1,
         IF iVar2 = iVar THEN tempCategory * At(bin, iVar2)
                         ELSE tempCategory * GetSize(iVar2))

\* lines 144-151: the inner loop over iVar2 for one iVar
RECURSIVE TempCategoryLoop(_, _, _, _)
TempCategoryLoop(bin, iVar, iVar2, tempCategory) ==
  IF iVar2 >= Len(fVariables) THEN tempCategory
  ELSE TempCategoryLoop(bin, iVar, iVar2 + 1,
         IF iVar2 = iVar THEN tempCategory * At(bin, iVar2)
                         ELSE tempCategory * (GetSize(iVar2) - 1))

\* lines 142-153: the outer loop
RECURSIVE CategoryLoop(_, _, _)
CategoryLoop(bin, iVar, category) ==
  IF iVar >= Len(fVariables) THEN category
  ELSE CategoryLoop(bin, iVar + 1,
                    category + TempCategoryLoop(bin, iVar, iVar, 1))

Categorize(bin) == CategoryLoop(bin, 0, 0)

\* variant: no test for an empty variable list
FindEventCategoryResult_NoEmptyTest(values) ==
  LET bin == [k \in 1 .. Len(fVariables) |-> BinOf(k - 1, values)]
  IN IF \E i \in 0 .. (Len(fVariables) - 1) : OutOfLimits(i, At(bin, i))
       THEN -1
       ELSE Categorize(bin)

\* variant: the call that runs Init returns without a category
FindEventCategoryResult_InitReturns(values) ==
  IF Len(fVariables) = 0 \/ ~fIsInitialized THEN -1
  ELSE LET bin == [k \in 1 .. Len(fVariables) |-> BinOf(k - 1, values)]
       IN IF \E i \in 0 .. (Len(fVariables) - 1) : OutOfLimits(i, At(bin, i))
            THEN -1
            ELSE Categorize(bin)

FindEventCategoryResult(values) ==
  IF Len(fVariables) = 0 THEN -1
  ELSE LET bin == [k \in 1 .. Len(fVariables) |-> BinOf(k - 1, values)]
       IN IF \E i \in 0 .. (Len(fVariables) - 1) : OutOfLimits(i, At(bin, i))
            THEN -1
            ELSE Categorize(bin)

\* variant: Init is not called
FlagAfterFind_NoInit == fIsInitialized

\* lines 126-131: the flag after the call
FlagAfterFind ==
  IF Len(fVariables) = 0 THEN fIsInitialized ELSE TRUE

(* --------------------------- GetBinFromCategory ------------------------ *)
\* variant: the loop includes the requested axis
RECURSIVE NormLoop_Inclusive(_, _, _)
NormLoop_Inclusive(tempVar, i, norm) ==
  IF i < tempVar THEN norm
  ELSE NormLoop_Inclusive(tempVar, i - 1, norm * (GetSize(i) - 1))

RECURSIVE NormLoop(_, _, _)
NormLoop(tempVar, i, norm) ==
  IF i <= tempVar THEN norm
  ELSE NormLoop(tempVar, i - 1, norm * (GetSize(i) - 1))

\* lines 175-182 for an axis index inside the variable list
BinFromCategory(tempVar, category) ==
  LET norm == NormLoop(tempVar, Len(fVariables) - 1, 1)
      truncatedCategory == CDiv(category - CRem(category, norm), norm)
  IN CRem(truncatedCategory, GetSize(tempVar) - 1)

\* lines 169-173: the scan for var; assigned is FALSE while tempVar has
\* not been written
RECURSIVE TempVarLoop(_, _, _)
TempVarLoop(var, i, tempVar) ==
  IF i >= Len(fVariables) THEN tempVar
  ELSE TempVarLoop(var, i + 1,
                   IF At(fVariables, i) = var
                     THEN [assigned |-> TRUE, index |-> i]
                     ELSE tempVar)

TempVarSearch(var) == TempVarLoop(var, 0, [assigned |-> FALSE, index |-> 0])

\* line 168 and lines 177-182: tempVar is assigned only when var matches; otherwise it
\* keeps its uninitialised value, which may be any int: an index inside the
\* list, or one outside it (-1 stands for those)
TempVarOutcomes(var) ==
  IF TempVarSearch(var).assigned
    THEN { TempVarSearch(var).index }
    ELSE (0 .. (Len(fVariables) - 1)) \cup {-1}

(* ------------------------------- actions ------------------------------- *)
Init ==
  /\ fVariables = <<>>
  /\ fVariableLimits = <<>>
  /\ fIsInitialized = FALSE
  /\ fgUsedVars = {}
  /\ lastOp = "MixingHandler"
  /\ lastVar = 0
  /\ lastCategory = 0
  /\ lastValues = NoValues
  /\ lastResult = 0
  /\ lastLimits = <<>>
  /\ lastUndefined = FALSE
  /\ prevCall = NoCall

AddMixingVariable(var, binLims) ==
  /\ Len(fVariables) < MaxAxes
  /\ fVariables' = Append(fVariables, var)
  /\ fVariableLimits' = Append(fVariableLimits, binLims)
  /\ fgUsedVars' = fgUsedVars \cup {var}
  /\ lastOp' = "AddMixingVariable"
  /\ lastVar' = var
  /\ lastCategory' = 0
  /\ lastValues' = NoValues
  /\ lastResult' = 0
  /\ lastLimits' = binLims
  /\ lastUndefined' = FALSE
  /\ prevCall' = NoCall
  /\ UNCHANGED fIsInitialized

GetMixingVariable(var) ==
  /\ lastOp' = "GetMixingVariable"
  /\ lastVar' = var
  /\ lastCategory' = 0
  /\ lastValues' = NoValues
  /\ lastResult' = GetMixingVariableResult(var)
  /\ lastLimits' = <<>>
  /\ lastUndefined' = FALSE
  /\ UNCHANGED <<fVariables, fVariableLimits, fIsInitialized, fgUsedVars, prevCall>>

GetMixingVariableLimits(var) ==
  /\ lastOp' = "GetMixingVariableLimits"
  /\ lastVar' = var
  /\ lastCategory' = 0
  /\ lastValues' = NoValues
  /\ lastResult' = 0
  /\ lastLimits' = GetMixingVariableLimitsResult(var)
  /\ lastUndefined' = FALSE
  /\ UNCHANGED <<fVariables, fVariableLimits, fIsInitialized, fgUsedVars, prevCall>>

InitCall ==
  /\ fIsInitialized' = TRUE
  /\ lastOp' = "Init"
  /\ lastVar' = 0
  /\ lastCategory' = 0
  /\ lastValues' = NoValues
  /\ lastResult' = InitSize
  /\ lastLimits' = <<>>
  /\ lastUndefined' = FALSE
  /\ UNCHANGED <<fVariables, fVariableLimits, fgUsedVars, prevCall>>

FindEventCategory(values) ==
  /\ fIsInitialized' = FlagAfterFind
  /\ lastOp' = "FindEventCategory"
  /\ lastVar' = 0
  /\ lastCategory' = 0
  /\ lastValues' = values
  /\ lastResult' = FindEventCategoryResult(values)
  /\ lastLimits' = <<>>
  /\ lastUndefined' = FALSE
  /\ prevCall' = IF prevCall.calls = 0
                   THEN [calls |-> 1, values |-> values,
                         result |-> FindEventCategoryResult(values)]
                   ELSE [prevCall EXCEPT !.calls = 2]
  /\ UNCHANGED <<fVariables, fVariableLimits, fgUsedVars>>

GetBinFromCategory(var, category) ==
  /\ lastOp' = "GetBinFromCategory"
  /\ lastVar' = var
  /\ lastCategory' = category
  /\ lastValues' = NoValues
  /\ lastLimits' = <<>>
  /\ IF Len(fVariables) = 0
       THEN lastResult' = -1 /\ lastUndefined' = FALSE
       ELSE \E tempVar \in TempVarOutcomes(var) :
              IF tempVar \in 0 .. (Len(fVariables) - 1)
                THEN /\ lastResult' = BinFromCategory(tempVar, category)
                     /\ lastUndefined' = ~TempVarSearch(var).assigned
                ELSE /\ lastResult' \in {-1, 0}
                     /\ lastUndefined' = TRUE
  /\ UNCHANGED <<fVariables, fVariableLimits, fIsInitialized, fgUsedVars, prevCall>>

Next ==
  \/ \E var \in Vars, binLims \in BinLimits : AddMixingVariable(var, binLims)
  \/ \E var \in Vars : GetMixingVariable(var)
  \/ \E var \in Vars : GetMixingVariableLimits(var)
  \/ InitCall
  \/ \E values \in ValueVectors : FindEventCategory(values)
  \/ \E var \in Vars, category \in Categories : GetBinFromCategory(var, category)

Spec == Init /\ [][Next]_vars

(* ------------------- vocabulary of the properties ---------------------- *)
NAxes == Len(fVariables)

Axes == 0 .. (NAxes - 1)

Edges(i) == fVariableLimits[i + 1]

BinCount(i) == Len(Edges(i)) - 1

ValueOf(i, values) == values[fVariables[i + 1]]

InRange(i, values) ==
  /\ Edges(i)[1] <= ValueOf(i, values)
  /\ ValueOf(i, values) < Edges(i)[Len(Edges(i))]

AllInRange(values) == \A i \in Axes : InRange(i, values)

\* index of the greatest edge of axis i that is <= the value
BinIndex(i, values) ==
  LET below == { k \in 0 .. BinCount(i) : Edges(i)[k + 1] <= ValueOf(i, values) }
  IN CHOOSE k \in below : \A m \in below : m <= k

RECURSIVE ProductFrom(_)
ProductFrom(j) == IF j >= NAxes THEN 1 ELSE BinCount(j) * ProductFrom(j + 1)

Weight(i) == ProductFrom(i + 1)

TotalCells == ProductFrom(0)

RECURSIVE MixedRadixFrom(_, _)
MixedRadixFrom(digit, i) ==
  IF i >= NAxes THEN 0
  ELSE digit[i + 1] * Weight(i) + MixedRadixFrom(digit, i + 1)

MixedRadix(digit) == MixedRadixFrom(digit, 0)

Registered(var) == \E i \in Axes : fVariables[i + 1] = var

DistinctIds == \A i, j \in Axes : fVariables[i + 1] = fVariables[j + 1] => i = j

LastIndexOf(var) ==
  CHOOSE i \in Axes : /\ fVariables[i + 1] = var
                      /\ \A j \in Axes : fVariables[j + 1] = var => j <= i

\* the bins GetBinFromCategory gives for every registered axis on the
\* category of the last call, the last call's own answer included
DecodedBins ==
  [k \in 1 .. NAxes |->
     IF fVariables[k] = lastVar
       THEN lastResult
       ELSE BinFromCategory(TempVarSearch(fVariables[k]).index, lastCategory)]

DecodedValid ==
  /\ lastOp = "GetBinFromCategory"
  /\ NAxes >= 1
  /\ Registered(lastVar)
  /\ 0 <= lastCategory
  /\ lastCategory < TotalCells

(* ------------------------------ C1 ------------------------------------- *)
\* C1 as stated: for every configuration with at least one axis and every
\* category c in [0, product of bin counts), decoding every registered axis
\* with GetBinFromCategory and re-encoding the bins with the weighting of
\* FindEventCategory gives c again.
C1_RoundTripAnyConfiguration ==
  DecodedValid => Categorize(DecodedBins) = lastCategory

\* C1 amended: the round trip holds when the registered identifiers are
\* pairwise distinct.
C1_RoundTripDistinctIds ==
  (DecodedValid /\ DistinctIds) => Categorize(DecodedBins) = lastCategory

C1_Witness ==
  /\ DecodedValid
  /\ DistinctIds
  /\ NAxes = 2
  /\ BinCount(0) = 3
  /\ BinCount(1) = 2
  /\ lastVar = fVariables[1]
  /\ lastCategory = 5
  /\ lastResult = 2

(* ------------------------------ C2 ------------------------------------- *)
\* C2: on one configuration with at least one axis, registered in any
\* order, two observable vectors that are both in range on every axis get
\* equal categories exactly when they have the same bin index on every axis.
C2_EqualCategoryIffSameBins ==
  ( /\ lastOp = "FindEventCategory"
    /\ NAxes >= 1
    /\ prevCall.calls >= 1
    /\ AllInRange(lastValues)
    /\ AllInRange(prevCall.values) )
  => ( (lastResult = prevCall.result)
       <=> (\A i \in Axes : BinIndex(i, lastValues) = BinIndex(i, prevCall.values)) )

C2_Witness ==
  /\ lastOp = "FindEventCategory"
  /\ NAxes = 2
  /\ prevCall.calls = 2
  /\ AllInRange(lastValues)
  /\ AllInRange(prevCall.values)
  /\ BinCount(0) = 2
  /\ BinCount(1) = 3
  /\ BinIndex(0, lastValues) = 1
  /\ BinIndex(1, lastValues) = 0
  /\ BinIndex(0, prevCall.values) = 0
  /\ BinIndex(1, prevCall.values) = 1
  /\ lastResult # prevCall.result

(* ------------------------------ C3 ------------------------------------- *)
\* C3: with at least one axis, FindEventCategory returns -1 exactly when
\* some axis has its value below its first edge or at/above its last edge;
\* a value on the first or an interior edge is in range.
C3_SentinelIffOutOfRange ==
  (lastOp = "FindEventCategory" /\ NAxes >= 1)
  => ( (lastResult = -1)
       <=> (\E i \in Axes : \/ ValueOf(i, lastValues) < Edges(i)[1]
                            \/ ValueOf(i, lastValues) >= Edges(i)[Len(Edges(i))]) )

C3_Witness ==
  /\ lastOp = "FindEventCategory"
  /\ NAxes = 2
  /\ InRange(0, lastValues)
  /\ ValueOf(0, lastValues) = Edges(0)[2]
  /\ ValueOf(1, lastValues) = Edges(1)[Len(Edges(1))]
  /\ lastResult = -1

(* ------------------------------ C4 ------------------------------------- *)
\* C4: for an in-range vector FindEventCategory returns the sum over the
\* axes of binIndex_i times the product of the bin counts of the axes
\* registered after i: the first registered axis is the most significant
\* digit.
C4_MixedRadixValue ==
  (lastOp = "FindEventCategory" /\ NAxes >= 1 /\ AllInRange(lastValues))
  => lastResult = MixedRadix([k \in 1 .. NAxes |-> BinIndex(k - 1, lastValues)])

C4_Witness ==
  /\ lastOp = "FindEventCategory"
  /\ fVariables = <<0, 1>>
  /\ fVariableLimits = << <<0, 2, 4, 6>>, <<-1, 2, 4>> >>
  /\ lastValues[0] = 4
  /\ lastValues[1] = 2
  /\ lastResult = 5

(* ------------------------------ C5 ------------------------------------- *)
\* C5: GetBinFromCategory for an identifier that was never registered, on a
\* configuration with at least one axis, returns the defined value -1 for
\* every category.
C5_UnregisteredGivesSentinel ==
  (lastOp = "GetBinFromCategory" /\ NAxes >= 1 /\ ~Registered(lastVar))
  => (lastResult = -1 /\ ~lastUndefined)

(* ------------------------------ C6 ------------------------------------- *)
\* C6: with no axis registered FindEventCategory returns -1 for every
\* vector and GetBinFromCategory returns -1 for every identifier and
\* category, both as defined results.
C6_EmptyConfigurationSentinel ==
  (NAxes = 0 /\ lastOp \in {"FindEventCategory", "GetBinFromCategory"})
  => (lastResult = -1 /\ ~lastUndefined)

C6_Witness ==
  /\ NAxes = 0
  /\ lastOp = "GetBinFromCategory"
  /\ lastCategory = 3
  /\ lastResult = -1

(* ------------------------------ C7 ------------------------------------- *)
\* the parts of C7 that do not depend on the configuration: the flag starts
\* false, never goes back to false, and Init on an initialised instance
\* changes nothing of the handler
FlagStep ==
  /\ fIsInitialized => fIsInitialized'
  /\ (lastOp' = "Init" /\ fIsInitialized)
       => UNCHANGED <<fVariables, fVariableLimits, fIsInitialized, fgUsedVars>>

\* C7 as stated: the flag is false after construction, true after the first
\* FindEventCategory whatever the configuration and input, stays true, and
\* a repeated Init changes nothing.
C7_FlagSetByAnyCategorize ==
  /\ ~fIsInitialized
  /\ [][ FlagStep /\ (lastOp' = "FindEventCategory" => fIsInitialized') ]_vars

\* C7 amended: FindEventCategory sets the flag when at least one axis is
\* registered; with no axis it leaves the flag as it was.
C7_FlagSetByCategorizeWithAxes ==
  /\ ~fIsInitialized
  /\ [][ /\ FlagStep
         /\ (lastOp' = "FindEventCategory" /\ NAxes >= 1) => fIsInitialized'
         /\ (lastOp' = "FindEventCategory" /\ NAxes = 0)
              => fIsInitialized' = fIsInitialized ]_vars

C7_Witness ==
  /\ lastOp = "FindEventCategory"
  /\ NAxes >= 1
  /\ prevCall.calls = 1
  /\ fIsInitialized

(* ------------------------------ C8 ------------------------------------- *)
\* C8: for an in-range vector on a configuration with at least one axis the
\* category lies in [0, product of the bin counts), the total Init computes.
C8_CategoryInRange ==
  (lastOp = "FindEventCategory" /\ NAxes >= 1 /\ AllInRange(lastValues))
  => (0 <= lastResult /\ lastResult < InitSize /\ InitSize = TotalCells)

C8_Witness ==
  /\ lastOp = "FindEventCategory"
  /\ NAxes = 2
  /\ AllInRange(lastValues)
  /\ InitSize = 6
  /\ lastResult = 5

(* ------------------------------ C9 ------------------------------------- *)
\* C9: GetMixingVariable returns the largest registration index holding the
\* identifier, or -1 when it was never registered, and GetBinFromCategory
\* decodes the digit of that same last matching axis.
C9_LastMatch ==
  /\ lastOp = "GetMixingVariable"
       => lastResult = (IF Registered(lastVar) THEN LastIndexOf(lastVar) ELSE -1)
  /\ (lastOp = "GetBinFromCategory" /\ Registered(lastVar) /\ lastCategory >= 0)
       => /\ ~lastUndefined
          /\ lastResult = (lastCategory \div Weight(LastIndexOf(lastVar)))
                            % BinCount(LastIndexOf(lastVar))

C9_Witness ==
  /\ lastOp = "GetBinFromCategory"
  /\ NAxes = 2
  /\ fVariables[1] = fVariables[2]
  /\ BinCount(0) = 3
  /\ BinCount(1) = 2
  /\ lastVar = fVariables[1]
  /\ lastCategory = 3
  /\ lastResult = 1

(* ------------------------------ C10 ------------------------------------ *)
\* C10: on a fixed registration list with at least one axis a repeated
\* FindEventCategory with the same vector returns what the first call
\* returned, whatever calls came in between and whether or not the first
\* call was the one that ran Init; only AddMixingVariable changes the list.
C10_Deterministic ==
  [][ /\ (lastOp' # "AddMixingVariable")
           => UNCHANGED <<fVariables, fVariableLimits>>
      /\ ( /\ lastOp' = "FindEventCategory"
           /\ NAxes >= 1
           /\ prevCall.calls >= 1
           /\ lastValues' = prevCall.values )
           => lastResult' = prevCall.result ]_vars

C10_Witness ==
  /\ lastOp = "FindEventCategory"
  /\ NAxes = 2
  /\ prevCall.calls = 2
  /\ lastValues = prevCall.values
  /\ lastResult = 3

====
